---- MODULE Spec2Model ----
(***************************************************************************)
(* Model of addr-spec-rs: the RFC 5322 addr-spec parser (src/src/parser.rs) *)
(* and the AddrSpec value with its serializers (src/src/lib.rs,             *)
(* src/src/ascii.rs).                                                       *)
(*                                                                         *)
(* Text is a sequence of characters; a character is a one-character string, *)
(* except "U+00E9", which stands for a character whose UTF-8 encoding takes *)
(* two bytes.  Offsets are byte offsets, as in the source.                  *)
(***************************************************************************)
EXTENDS Integers, Sequences, FiniteSets

VARIABLES
    feat,     \* the Cargo features of the build
    stage,    \* how far the caller is
    input,    \* the text given to from_str
    args,     \* the local part and the domain given to a from-parts constructor
    ctor,     \* the constructor that was called
    result,   \* what the constructor returned
    first,    \* the value that was serialized, once it is parsed again
    text,     \* what to_string returned
    parts,    \* what into_serialized_parts returned
    fold,     \* the white space or comment put into the text, and where
    must_escape  \* the characters the escaper was told to escape

vars == <<feat, stage, input, args, ctor, result, first, text, parts, fold, must_escape>>

----------------------------------------------------------------------------
(* Characters *)

SP == " "
HTAB == "\t"
CR == "\r"
LF == "\n"
DQUOTE == "\""
BACKSLASH == "\\"
WIDE == "U+00E9"

\* the characters of the model: every class the predicates of parser.rs tell apart
Alphabet ==
    {"a", WIDE, ".", "@", DQUOTE, BACKSLASH, SP, HTAB, CR, LF, "(", ")", "[", "]", ","}

\* char::len_utf8
len_utf8(chr) == IF chr = WIDE THEN 2 ELSE 1

\* str::len: the byte length of a text
RECURSIVE len(_)
len(s) == IF s = <<>> THEN 0 ELSE len_utf8(Head(s)) + len(Tail(s))

\* char::is_ascii_control (U+0000..U+001F and U+007F), on the model's characters
is_ascii_control(chr) == chr \in {HTAB, CR, LF}

is_ascii_control_and_not_htab(chr) == is_ascii_control(chr) /\ chr # HTAB

\* is_ascii_control_or_space, had it let the space through
is_ascii_control_or_space_without_space(chr) == is_ascii_control(chr)

is_ascii_control_or_space(chr) == is_ascii_control(chr) \/ chr = SP

is_not_atext(chr) ==
    \/ is_ascii_control(chr)
    \/ chr \in {SP, DQUOTE, "(", ")", ",", ":", "<", ">", "@", "[", "]", BACKSLASH}

\* is_not_dtext, had it let the space through
is_not_dtext_without_space(chr) == is_ascii_control(chr) \/ chr \in {"[", "]", BACKSLASH}

is_not_dtext(chr) == is_ascii_control(chr) \/ chr \in {SP, "[", "]", BACKSLASH}

----------------------------------------------------------------------------
(* Text helpers of the standard library, as the parser uses them *)

\* &s[n..] by characters
Drop(s, n) == SubSeq(s, n + 1, Len(s))

\* &s[..n] by characters
Take(s, n) == SubSeq(s, 1, n)

\* str::starts_with(&str)
starts_with(s, pat) == Len(s) >= Len(pat) /\ Take(s, Len(pat)) = pat

\* str::ends_with(char)
ends_with(s, chr) == s # <<>> /\ s[Len(s)] = chr

\* str::find(predicate), as a count of characters; Len(s) when there is none
RECURSIVE FindNotAtext(_)
FindNotAtext(s) ==
    IF s = <<>> \/ is_not_atext(Head(s)) THEN 0 ELSE 1 + FindNotAtext(Tail(s))

RECURSIVE FindNotDtext(_)
FindNotDtext(s) ==
    IF s = <<>> \/ is_not_dtext(Head(s)) THEN 0 ELSE 1 + FindNotDtext(Tail(s))

RECURSIVE FindControlNotHtab(_)
FindControlNotHtab(s) ==
    IF s = <<>> \/ is_ascii_control_and_not_htab(Head(s)) THEN 0
    ELSE 1 + FindControlNotHtab(Tail(s))

\* str::find(".."), as a count of characters; -1 when there is none
RECURSIVE FindDotDot(_)
FindDotDot(s) ==
    IF Len(s) < 2 THEN -1
    ELSE IF s[1] = "." /\ s[2] = "." THEN 0
    ELSE LET r == FindDotDot(Tail(s)) IN IF r = -1 THEN -1 ELSE r + 1

----------------------------------------------------------------------------
(* Results *)

ParseError(message, index) == [message |-> message, index |-> index]

Err(e) == [ok |-> FALSE, error |-> e]

\* Parser::error: the bytes consumed so far, plus offset
error(in, rest, message, offset) == ParseError(message, (len(in) - len(rest)) + offset)

AddrSpec(local_part, domain, literal) ==
    [local_part |-> local_part, domain |-> domain, literal |-> literal]

Ok(val, rest) == [ok |-> TRUE, val |-> val, rest |-> rest]

\* impl Display for usize: the decimal digits
RECURSIVE Decimal(_)
Decimal(n) ==
    LET digit == <<"0", "1", "2", "3", "4", "5", "6", "7", "8", "9">>[(n % 10) + 1]
    IN  IF n < 10 THEN <<digit>> ELSE Decimal(n \div 10) \o <<digit>>

\* impl Display for ParseError: write!(formatter, "parse error at index {}: {}",
\* self.message(), self.index()); the text is a sequence of pieces, the
\* message being one piece
display(e) ==
    <<"parse error at index ">> \o <<e.message>> \o <<": ">> \o Decimal(e.index)

\* unicode::normalize without the "normalization" feature: the text as it is
normalize(value) == value

----------------------------------------------------------------------------
(* Parser (src/src/parser.rs).  `in` is Parser::input, `rest` is what       *)
(* Parser::iterator has not consumed yet; an operator returns the new rest. *)

\* Parser::skip_ws: eat_slice([' ', '\t']) until it fails
RECURSIVE skip_ws(_)
skip_ws(rest) ==
    IF rest # <<>> /\ Head(rest) \in {SP, HTAB} THEN skip_ws(Tail(rest)) ELSE rest

\* skip_fws, had it stopped at a CRLF
skip_fws_without_fold(rest) == skip_ws(rest)

\* Parser::skip_fws
skip_fws(rest) ==
    LET r1 == skip_ws(rest)
    IN  IF ~starts_with(r1, <<CR, LF>>) THEN r1 ELSE skip_ws(Drop(r1, 2))

\* the skip_fws calls that exist only with the "white-spaces" feature
fws(f, rest) == IF f.white_spaces THEN skip_fws(rest) ELSE rest

\* parse_quoted_pair, had it reported the end of input one byte early
parse_quoted_pair_end_off_by_one(in, rest) ==
    IF rest = <<>> THEN Err(error(in, rest, "unexpected end of quoted pair", -1))
    ELSE IF ~is_ascii_control_and_not_htab(Head(rest)) THEN Ok(Head(rest), Tail(rest))
    ELSE Err(error(in, Tail(rest), "invalid character in quoted pair", -1))

\* parse_quoted_pair, had it taken every character after the backslash
parse_quoted_pair_any_character(in, rest) ==
    IF rest = <<>> THEN Err(error(in, rest, "unexpected end of quoted pair", 0))
    ELSE Ok(Head(rest), Tail(rest))

\* Parser::parse_quoted_pair
parse_quoted_pair(in, rest) ==
    IF rest = <<>> THEN Err(error(in, rest, "unexpected end of quoted pair", 0))
    ELSE IF ~is_ascii_control_and_not_htab(Head(rest)) THEN Ok(Head(rest), Tail(rest))
    ELSE Err(error(in, Tail(rest), "invalid character in quoted pair", -1))

\* Parser::parse_comment: the loop, with nest_level
RECURSIVE comment_loop(_, _, _, _)
comment_loop(f, in, rest, nest_level) ==
    IF rest = <<>> THEN Err(error(in, rest, "expected ')' for comment", 0))
    ELSE
      LET chr == Head(rest)
          r1 == Tail(rest)
      IN  CASE chr = ")" ->
                 IF nest_level = 1 THEN Ok(<<>>, r1)
                 ELSE comment_loop(f, in, fws(f, r1), nest_level - 1)
            [] chr = BACKSLASH ->
                 LET qp == parse_quoted_pair(in, r1)
                 IN  IF ~qp.ok THEN qp ELSE comment_loop(f, in, fws(f, qp.rest), nest_level)
            [] chr = "(" -> comment_loop(f, in, fws(f, r1), nest_level + 1)
            [] OTHER ->
                 IF is_ascii_control_or_space(chr)
                 THEN Err(error(in, r1, "invalid character in comment", -1))
                 ELSE comment_loop(f, in, fws(f, r1), nest_level)

\* parse_comment, had it counted the opening parenthesis twice
parse_comment_counting_twice(f, in, rest) == comment_loop(f, in, fws(f, rest), 2)

\* Parser::parse_comment
parse_comment(f, in, rest) == comment_loop(f, in, fws(f, rest), 1)

\* Parser::parse_cfws: the while loop over comments
RECURSIVE cfws_loop(_, _, _)
cfws_loop(f, in, rest) ==
    IF rest # <<>> /\ Head(rest) = "("
    THEN LET c == parse_comment(f, in, Tail(rest))
         IN  IF ~c.ok THEN c ELSE cfws_loop(f, in, skip_fws(c.rest))
    ELSE Ok(<<>>, rest)

\* Parser::parse_cfws, compiled only with the "white-spaces" feature
parse_cfws(f, in, rest) ==
    IF ~f.white_spaces THEN Ok(<<>>, rest)
    ELSE IF f.comments THEN cfws_loop(f, in, skip_fws(rest))
    ELSE Ok(<<>>, skip_fws(rest))

\* parse_dot_atom, had it let an empty dot-atom through
parse_dot_atom_accepting_empty(in, rest, empty_error_text, empty_label_error_text) ==
    LET size == FindNotAtext(rest)
        dot_atom == Take(rest, size)
        index == FindDotDot(dot_atom)
    IN  IF dot_atom = <<>> THEN Ok(dot_atom, rest)
        ELSE IF Head(dot_atom) = "." THEN Err(error(in, rest, empty_label_error_text, 0))
        ELSE IF index # -1
             THEN Err(error(in, rest, empty_label_error_text, len(Take(dot_atom, index))))
        ELSE IF ends_with(dot_atom, ".")
             THEN Err(error(in, rest, empty_label_error_text, len(dot_atom) - 1))
        ELSE Ok(dot_atom, Drop(rest, size))

\* parse_dot_atom, had it reported a doubled dot at the second dot
parse_dot_atom_second_dot(in, rest, empty_error_text, empty_label_error_text) ==
    LET size == FindNotAtext(rest)
        dot_atom == Take(rest, size)
        index == FindDotDot(dot_atom)
    IN  IF dot_atom = <<>> THEN Err(error(in, rest, empty_error_text, 0))
        ELSE IF Head(dot_atom) = "." THEN Err(error(in, rest, empty_label_error_text, 0))
        ELSE IF index # -1
             THEN Err(error(in, rest, empty_label_error_text,
                            len(Take(dot_atom, index)) + 1))
        ELSE IF ends_with(dot_atom, ".")
             THEN Err(error(in, rest, empty_label_error_text, len(dot_atom) - 1))
        ELSE Ok(dot_atom, Drop(rest, size))

\* parse_dot_atom, had it let a trailing dot through
parse_dot_atom_trailing_dot(in, rest, empty_error_text, empty_label_error_text) ==
    LET size == FindNotAtext(rest)
        dot_atom == Take(rest, size)
        index == FindDotDot(dot_atom)
    IN  IF dot_atom = <<>> THEN Err(error(in, rest, empty_error_text, 0))
        ELSE IF Head(dot_atom) = "." THEN Err(error(in, rest, empty_label_error_text, 0))
        ELSE IF index # -1
             THEN Err(error(in, rest, empty_label_error_text, len(Take(dot_atom, index))))
        ELSE Ok(dot_atom, Drop(rest, size))

\* parse_dot_atom, had it reported a trailing dot one byte past it
parse_dot_atom_past_trailing_dot(in, rest, empty_error_text, empty_label_error_text) ==
    LET size == FindNotAtext(rest)
        dot_atom == Take(rest, size)
        index == FindDotDot(dot_atom)
    IN  IF dot_atom = <<>> THEN Err(error(in, rest, empty_error_text, 0))
        ELSE IF Head(dot_atom) = "." THEN Err(error(in, rest, empty_label_error_text, 0))
        ELSE IF index # -1
             THEN Err(error(in, rest, empty_label_error_text, len(Take(dot_atom, index))))
        ELSE IF ends_with(dot_atom, ".")
             THEN Err(error(in, rest, empty_label_error_text, len(dot_atom)))
        ELSE Ok(dot_atom, Drop(rest, size))

\* Parser::parse_dot_atom
parse_dot_atom(in, rest, empty_error_text, empty_label_error_text) ==
    LET size == FindNotAtext(rest)
        dot_atom == Take(rest, size)
        index == FindDotDot(dot_atom)
    IN  IF dot_atom = <<>> THEN Err(error(in, rest, empty_error_text, 0))
        ELSE IF Head(dot_atom) = "." THEN Err(error(in, rest, empty_label_error_text, 0))
        ELSE IF index # -1
             THEN Err(error(in, rest, empty_label_error_text, len(Take(dot_atom, index))))
        ELSE IF ends_with(dot_atom, ".")
             THEN Err(error(in, rest, empty_label_error_text, len(dot_atom) - 1))
        ELSE Ok(dot_atom, Drop(rest, size))

\* Parser::parse_quoted_string: the loop; quoted_string is the FixedVec
RECURSIVE quoted_string_loop(_, _, _, _, _, _)
quoted_string_loop(f, in, rest, quoted_string, invalid_character_error_text, expected_quote_error_text) ==
    IF rest = <<>> THEN Err(error(in, rest, expected_quote_error_text, 0))
    ELSE
      LET chr == Head(rest)
          r1 == Tail(rest)
      IN  CASE chr = DQUOTE -> Ok(quoted_string, r1)
            [] chr = BACKSLASH ->
                 LET qp == parse_quoted_pair(in, r1)
                 IN  IF ~qp.ok THEN qp
                     ELSE quoted_string_loop(f, in, fws(f, qp.rest),
                              Append(quoted_string, qp.val),
                              invalid_character_error_text, expected_quote_error_text)
            [] OTHER ->
                 IF is_ascii_control_or_space(chr)
                 THEN Err(error(in, r1, invalid_character_error_text, -1))
                 ELSE quoted_string_loop(f, in, fws(f, r1), Append(quoted_string, chr),
                          invalid_character_error_text, expected_quote_error_text)

\* Parser::parse_quoted_string
parse_quoted_string(f, in, rest, invalid_character_error_text, expected_quote_error_text) ==
    quoted_string_loop(f, in, fws(f, rest), <<>>,
        invalid_character_error_text, expected_quote_error_text)

\* Parser::parse_local_part
parse_local_part(f, in, rest) ==
    IF ~(rest # <<>> /\ Head(rest) = DQUOTE)
    THEN LET r == parse_dot_atom(in, rest, "unquoted local part cannot be empty",
                                 "empty label in local part")
         IN  IF r.ok THEN Ok(normalize(r.val), r.rest) ELSE r
    ELSE LET r == parse_quoted_string(f, in, Tail(rest),
                      "invalid character in quoted local part",
                      "expected '\"' for quoted local part")
         IN  IF r.ok THEN Ok(normalize(r.val), r.rest) ELSE r

\* Parser::skip_at
skip_at(in, rest) ==
    IF rest # <<>> /\ Head(rest) = "@" THEN Ok(<<>>, Tail(rest))
    ELSE Err(error(in, rest, "expected '@'", 1))

\* parse_domain_literal, had it reported a missing ']' where the content starts
parse_domain_literal_plain_at_start(in, rest) ==
    LET size == FindNotDtext(rest)
        r1 == Drop(rest, size)
    IN  IF ~(r1 # <<>> /\ Head(r1) = "]")
        THEN Err(error(in, rest, "expected ']' for domain literal", 0))
        ELSE Ok(Take(rest, size), Tail(r1))

\* Parser::parse_domain_literal without the "white-spaces" feature
parse_domain_literal_plain(in, rest) ==
    LET size == FindNotDtext(rest)
        r1 == Drop(rest, size)
    IN  IF ~(r1 # <<>> /\ Head(r1) = "]")
        THEN Err(error(in, r1, "expected ']' for domain literal", 0))
        ELSE Ok(Take(rest, size), Tail(r1))

\* Parser::parse_domain_literal with the "white-spaces" feature: the loop
RECURSIVE domain_literal_loop(_, _, _)
domain_literal_loop(in, rest, domain) ==
    IF rest = <<>> THEN Err(error(in, rest, "expected ']' for domain literal", 0))
    ELSE
      LET chr == Head(rest)
          r1 == Tail(rest)
      IN  IF chr = "]" THEN Ok(domain, r1)
          ELSE IF is_not_dtext(chr)
               THEN Err(error(in, r1, "invalid character in literal domain", -1))
          ELSE domain_literal_loop(in, skip_fws(r1), Append(domain, chr))

\* Parser::parse_domain_literal, either variant
parse_domain_literal(f, in, rest) ==
    IF f.white_spaces THEN domain_literal_loop(in, skip_fws(rest), <<>>)
    ELSE parse_domain_literal_plain(in, rest)

\* parse_domain, had it left the literal flag unset
parse_domain_never_literal(f, in, rest) ==
    IF f.literals /\ rest # <<>> /\ Head(rest) = "["
    THEN LET r == parse_domain_literal(f, in, Tail(rest))
         IN  IF r.ok THEN Ok(<<normalize(r.val), FALSE>>, r.rest) ELSE r
    ELSE LET r == parse_dot_atom(in, rest, "non-literal domain cannot be empty",
                                 "empty label in domain")
         IN  IF r.ok THEN Ok(<<normalize(r.val), FALSE>>, r.rest) ELSE r

\* Parser::parse_domain: val is the pair (domain, literal)
parse_domain(f, in, rest) ==
    IF f.literals /\ rest # <<>> /\ Head(rest) = "["
    THEN LET r == parse_domain_literal(f, in, Tail(rest))
         IN  IF r.ok THEN Ok(<<normalize(r.val), TRUE>>, r.rest) ELSE r
    ELSE LET r == parse_dot_atom(in, rest, "non-literal domain cannot be empty",
                                 "empty label in domain")
         IN  IF r.ok THEN Ok(<<normalize(r.val), FALSE>>, r.rest) ELSE r

\* check_end, had it let the rest of the input pass
check_end_ignoring_rest(in, rest, message) == Ok(<<>>, rest)

\* Parser::check_end
check_end(in, rest, message) ==
    IF rest = <<>> THEN Ok(<<>>, rest) ELSE Err(error(in, rest, message, 0))

\* FixedVec::new: the len and cap fields of the buffer
FixedVec_new(cap) == [len |-> 0, cap |-> cap]

\* FixedVec::extend_char_unchecked: the UTF-8 bytes of chr are copied to the
\* end of the buffer and len grows by their number
extend_char_unchecked(vec, chr) == [vec EXCEPT !.len = @ + len_utf8(chr)]

\* Parser::parse_quoted_string, the loop: the buffer as allocated and after
\* each extend_char_unchecked, up to the return
RECURSIVE quoted_string_steps(_, _, _, _)
quoted_string_steps(f, in, rest, vecs) ==
    IF rest = <<>> THEN vecs
    ELSE
      LET chr == Head(rest)
          r1 == Tail(rest)
          vec == vecs[Len(vecs)]
      IN  CASE chr = DQUOTE -> vecs
            [] chr = BACKSLASH ->
                 LET qp == parse_quoted_pair(in, r1)
                 IN  IF ~qp.ok THEN vecs
                     ELSE quoted_string_steps(f, in, fws(f, qp.rest),
                              Append(vecs, extend_char_unchecked(vec, qp.val)))
            [] OTHER ->
                 IF is_ascii_control_or_space(chr) THEN vecs
                 ELSE quoted_string_steps(f, in, fws(f, r1),
                          Append(vecs, extend_char_unchecked(vec, chr)))

\* the buffer of parse_quoted_string, had its capacity been counted in characters
quoted_string_buffer_sized_in_chars(f, in, rest) ==
    quoted_string_steps(f, in, fws(f, rest), <<FixedVec_new(Len(fws(f, rest)))>>)

\* Parser::parse_quoted_string: FixedVec::new(self.iterator.as_str().len())
\* after skip_fws, then the loop
quoted_string_buffer(f, in, rest) ==
    quoted_string_steps(f, in, fws(f, rest), <<FixedVec_new(len(fws(f, rest)))>>)

\* Parser::parse_domain_literal with the "white-spaces" feature, the loop: the
\* buffer as allocated and after each extend_char_unchecked, up to the return
RECURSIVE domain_literal_steps(_, _)
domain_literal_steps(rest, vecs) ==
    IF rest = <<>> THEN vecs
    ELSE
      LET chr == Head(rest)
          r1 == Tail(rest)
          vec == vecs[Len(vecs)]
      IN  IF chr = "]" THEN vecs
          ELSE IF is_not_dtext(chr) THEN vecs
          ELSE domain_literal_steps(skip_fws(r1),
                   Append(vecs, extend_char_unchecked(vec, chr)))

\* Parser::parse_domain_literal with the "white-spaces" feature:
\* FixedVec::new(self.iterator.as_str().len()) after skip_fws, then the loop
domain_literal_buffer(rest) ==
    domain_literal_steps(skip_fws(rest), <<FixedVec_new(len(skip_fws(rest)))>>)

\* Parser::parse: the buffers made on the way, in the order they are made;
\* parse_local_part makes one for a quoted local part, parse_domain one for a
\* domain literal when both "literals" and "white-spaces" are enabled
buffers(f, in) ==
    LET s1 == parse_cfws(f, in, in) IN
    IF ~s1.ok THEN <<>> ELSE
    LET quoted == s1.rest # <<>> /\ Head(s1.rest) = DQUOTE
        of_local == IF quoted THEN <<quoted_string_buffer(f, in, Tail(s1.rest))>> ELSE <<>>
        local_part == parse_local_part(f, in, s1.rest)
    IN
    IF ~local_part.ok THEN of_local ELSE
    LET s2 == parse_cfws(f, in, local_part.rest) IN
    IF ~s2.ok THEN of_local ELSE
    LET s3 == skip_at(in, s2.rest) IN
    IF ~s3.ok THEN of_local ELSE
    LET s4 == parse_cfws(f, in, s3.rest) IN
    IF ~s4.ok THEN of_local ELSE
    IF f.literals /\ f.white_spaces /\ s4.rest # <<>> /\ Head(s4.rest) = "["
    THEN of_local \o <<domain_literal_buffer(Tail(s4.rest))>>
    ELSE of_local

\* Parser::parse; without the "literals" feature AddrSpec has no literal field
\* and is_literal() is false
parse(f, in) ==
    LET s1 == parse_cfws(f, in, in) IN
    IF ~s1.ok THEN s1 ELSE
    LET local_part == parse_local_part(f, in, s1.rest) IN
    IF ~local_part.ok THEN local_part ELSE
    LET s2 == parse_cfws(f, in, local_part.rest) IN
    IF ~s2.ok THEN s2 ELSE
    LET s3 == skip_at(in, s2.rest) IN
    IF ~s3.ok THEN s3 ELSE
    LET s4 == parse_cfws(f, in, s3.rest) IN
    IF ~s4.ok THEN s4 ELSE
    LET domain == parse_domain(f, in, s4.rest) IN
    IF ~domain.ok THEN domain ELSE
    LET s5 == parse_cfws(f, in, domain.rest) IN
    IF ~s5.ok THEN s5 ELSE
    LET s6 == check_end(in, s5.rest, "expected end of address") IN
    IF ~s6.ok THEN s6 ELSE
    Ok(AddrSpec(local_part.val, domain.val[1], domain.val[2]), <<>>)

----------------------------------------------------------------------------
(* Escaper (src/src/ascii.rs) *)

\* memcpsn!: the index (from 0) of the first element matching a pattern; -1 is None
RECURSIVE memcpsn(_, _)
memcpsn(value, patterns) ==
    IF value = <<>> THEN -1
    ELSE IF Head(value) \in patterns THEN 0
    ELSE LET i == memcpsn(Tail(value), patterns) IN IF i = -1 THEN -1 ELSE i + 1

\* escape!, had it stopped after the first match
escape_first_match_only(src, escape_char, patterns) ==
    LET end == memcpsn(src, {escape_char} \cup patterns)
    IN  IF end = -1 THEN src
        ELSE Take(src, end) \o <<escape_char, src[end + 1]>> \o Drop(src, end + 1)

\* escape!: copy up to each match, then the escape character and the match
RECURSIVE escape(_, _, _)
escape(src, escape_char, patterns) ==
    LET end == memcpsn(src, {escape_char} \cup patterns)
    IN  IF end = -1 THEN src
        ELSE Take(src, end) \o <<escape_char, src[end + 1]>>
                 \o escape(Drop(src, end + 1), escape_char, patterns)

----------------------------------------------------------------------------
(* AddrSpec (src/src/lib.rs) *)

\* quote, had it left space and tab alone
quote_only_quote_and_backslash(value) == escape(value, BACKSLASH, {DQUOTE})

\* quote, had it left the tab alone
quote_without_tab(value) == escape(value, BACKSLASH, {DQUOTE, SP})

\* quote
quote(value) == escape(value, BACKSLASH, {DQUOTE, SP, HTAB})

\* str::split('.'): the segments between the dots, at least one
RECURSIVE split(_, _)
split(s, current) ==
    IF s = <<>> THEN <<current>>
    ELSE IF Head(s) = "." THEN <<current>> \o split(Tail(s), <<>>)
    ELSE split(Tail(s), Append(current, Head(s)))

\* is_quoted, had it looked at the characters only and not at empty segments
is_quoted_ignoring_empty_segments(a) ==
    \E j \in 1..Len(a.local_part) : is_not_atext(a.local_part[j])

\* AddrSpec::is_quoted
is_quoted(a) ==
    LET segments == split(a.local_part, <<>>)
    IN  \E i \in 1..Len(segments) :
            \/ segments[i] = <<>>
            \/ \E j \in 1..Len(segments[i]) : is_not_atext(segments[i][j])

\* AddrSpec::is_literal
is_literal(a) == a.literal

\* Display, had it quoted every local part
to_string_always_quoted(a) ==
    <<DQUOTE>> \o quote(a.local_part) \o <<DQUOTE>> \o <<"@">>
    \o (IF ~is_literal(a) THEN a.domain ELSE <<"[">> \o a.domain \o <<"]">>)

\* impl Display for AddrSpec
to_string(a) ==
    (IF ~is_quoted(a) THEN a.local_part
     ELSE <<DQUOTE>> \o quote(a.local_part) \o <<DQUOTE>>)
    \o <<"@">>
    \o (IF ~is_literal(a) THEN a.domain ELSE <<"[">> \o a.domain \o <<"]">>)

\* into_serialized_parts, had it written a quoted local part without escaping it
into_serialized_parts_unescaped(a) ==
    <<IF ~is_quoted(a) THEN a.local_part ELSE <<DQUOTE>> \o a.local_part \o <<DQUOTE>>,
      IF ~is_literal(a) THEN a.domain ELSE <<"[">> \o a.domain \o <<"]">>>>

\* AddrSpec::into_serialized_parts
into_serialized_parts(a) ==
    CASE ~is_quoted(a) /\ ~is_literal(a) -> <<a.local_part, a.domain>>
      [] is_quoted(a) /\ ~is_literal(a) ->
           <<<<DQUOTE>> \o quote(a.local_part) \o <<DQUOTE>>, a.domain>>
      [] ~is_quoted(a) /\ is_literal(a) ->
           <<a.local_part, <<"[">> \o a.domain \o <<"]">>>>
      [] is_quoted(a) /\ is_literal(a) ->
           <<<<DQUOTE>> \o quote(a.local_part) \o <<DQUOTE>>,
             <<"[">> \o a.domain \o <<"]">>>>

\* new_impl, had it left out check_end after the dot-atom of the domain
new_impl_without_check_end(local_part, domain, literal) ==
    LET index == FindControlNotHtab(local_part)
        dindex == FindNotDtext(domain)
        atom == parse_dot_atom(domain, domain, "empty label in domain",
                               "empty label in domain")
    IN  IF index < Len(local_part)
        THEN Err(ParseError("invalid character in local part", len(Take(local_part, index))))
        ELSE IF literal /\ dindex < Len(domain)
        THEN Err(ParseError("invalid character in literal domain",
                            len(Take(domain, dindex))))
        ELSE IF ~literal /\ ~atom.ok THEN atom
        ELSE Ok(AddrSpec(normalize(local_part), normalize(domain), literal), <<>>)

\* AddrSpec::new_impl; the call of parse_dot_atom gives one diagnostic,
\* "empty label in domain", which stands for both of its texts
new_impl(local_part, domain, literal) ==
    LET index == FindControlNotHtab(local_part)
        dindex == FindNotDtext(domain)
        atom == parse_dot_atom(domain, domain, "empty label in domain",
                               "empty label in domain")
        end == check_end(domain, atom.rest, "invalid character in domain")
    IN  IF index < Len(local_part)
        THEN Err(ParseError("invalid character in local part", len(Take(local_part, index))))
        ELSE IF literal /\ dindex < Len(domain)
        THEN Err(ParseError("invalid character in literal domain",
                            len(Take(domain, dindex))))
        ELSE IF ~literal /\ ~atom.ok THEN atom
        ELSE IF ~literal /\ ~end.ok THEN end
        ELSE Ok(AddrSpec(normalize(local_part), normalize(domain), literal), <<>>)

\* the `?` and the to_string() of AddrSpec::normalize, on what parse returned
to_string_or_error(r) == IF ~r.ok THEN r ELSE Ok(to_string(r.val), <<>>)

\* AddrSpec::normalize, had it handed back the address as it was given
AddrSpec_normalize_as_given(f, address) ==
    IF ~parse(f, address).ok THEN parse(f, address) ELSE Ok(address, <<>>)

\* AddrSpec::normalize: address.parse::<Self>()?.to_string(); val is the String
AddrSpec_normalize(f, address) == to_string_or_error(parse(f, address))

\* AddrSpec::new_unchecked_impl
new_unchecked_impl(local_part, domain, literal) == AddrSpec(local_part, domain, literal)

----------------------------------------------------------------------------
(* Bounds and the inputs drawn from them *)

\* longest text over the whole alphabet given to from_str; a from-parts
\* constructor gets every cut of a text one character shorter
MaxRaw == 3

\* most items (a character or a quoted pair) in the local part of a composed address
MaxItems == 3

Texts(chars, n) == UNION {[1..k -> chars] : k \in 0..n}

RECURSIVE Flatten(_)
Flatten(ss) == IF ss = <<>> THEN <<>> ELSE Head(ss) \o Flatten(Tail(ss))

Raw == Texts(Alphabet, MaxRaw)

\* what a quoted local part is written with: characters and quoted pairs
QuotedItems ==
    {<<"a">>, <<".">>, <<SP>>, <<BACKSLASH, DQUOTE>>, <<BACKSLASH, BACKSLASH>>,
     <<BACKSLASH, SP>>, <<BACKSLASH, HTAB>>}

\* local parts as written in an address: bare, or items between double quotes
LocalSources ==
    Texts({"a", "."}, MaxItems)
        \cup {<<DQUOTE>> \o Flatten(items) \o <<DQUOTE>> :
                 items \in Texts(QuotedItems, MaxItems)}

\* domains as written in an address, and what may follow them
DomainSources ==
    {<<>>, <<"a">>, <<WIDE>>, <<"a", ".", "a">>, <<"a", ".", ".", "a">>, <<"a", ".">>,
     <<"[", "]">>, <<"[", "a", "]">>, <<"[", "a", ".", ".", "]">>, <<"[", "a">>,
     <<"a", "@", "a">>, <<"[", "]", "a">>,
     <<".", "a">>, <<"a", SP, "a">>,
     <<"[", "a", SP, "a", "]">>, <<"[", "a", "[">>, <<"[", WIDE, CR, "]">>}

Composed == {l \o <<"@">> \o d : l \in LocalSources, d \in DomainSources}

Inputs == Raw \cup Composed

\* every cut of a text over the whole alphabet into a local part and a domain
Args ==
    UNION {{<<Take(t, k), Drop(t, k)>> : k \in 0..Len(t)} :
              t \in Texts(Alphabet, MaxRaw - 1)}

\* longest accepted address that white space or a comment is put into
MaxDecorated == 7

\* folding white space: spaces and tabs, with at most one CRLF among them
FWSUnits ==
    {<<SP>>, <<HTAB, SP>>, <<CR, LF>>, <<CR, LF, SP>>, <<SP, CR, LF>>, <<SP, CR, LF, HTAB>>}

\* comments: empty, plain, nested, and with an escaped parenthesis
Comments ==
    {<<"(", ")">>, <<"(", "a", ")">>, <<"(", "(", "a", ")", ")">>,
     <<"(", BACKSLASH, ")", ")">>, <<"(", BACKSLASH, "(", ")">>}

\* what a build skips between the parts of an address
Decorations(f) ==
    (IF f.white_spaces THEN FWSUnits ELSE {}) \cup (IF f.comments THEN Comments ELSE {})

\* the sets of characters the escaper is told to escape
PatternSets == {{}, {DQUOTE}, {DQUOTE, SP, HTAB}, {"a", WIDE, "@"}}

\* the builds: Cargo features "white-spaces", "comments" (which needs
\* "white-spaces": parse_comment is reached from parse_cfws only), "literals"
Features ==
    {f \in [white_spaces : BOOLEAN, comments : BOOLEAN, literals : BOOLEAN] :
        f.comments => f.white_spaces}

----------------------------------------------------------------------------
(* State machine: a caller builds an AddrSpec, serializes it, parses it again *)

NoValue == AddrSpec(<<>>, <<>>, FALSE)
NoError == ParseError("", 0)
NoResult == [ok |-> FALSE, value |-> NoValue, error |-> NoError]

\* Result<AddrSpec, ParseError>
Outcome(r) ==
    IF r.ok THEN [ok |-> TRUE, value |-> r.val, error |-> NoError]
    ELSE [ok |-> FALSE, value |-> NoValue, error |-> r.error]

\* Result<String, ParseError>: whether it is Ok, and its error
Status(r) == [ok |-> r.ok, value |-> NoValue, error |-> IF r.ok THEN NoError ELSE r.error]

\* Result<String, ParseError>: its String, empty for an Err
StringOf(r) == IF r.ok THEN r.val ELSE <<>>

\* nothing was put into the text
NoFold == [at |-> 0, unit |-> <<>>]

\* s with u put in after its first k characters
Insert(s, k, u) == Take(s, k) \o u \o Drop(s, k)

Init ==
    /\ feat \in Features
    /\ \/ stage = "text" /\ input \in Inputs /\ args = <<<<>>, <<>>>>
       \/ /\ stage = "parts" /\ input = <<>>
          /\ args \in Args
          /\ ~feat.white_spaces
    /\ ctor = "none"
    /\ result = NoResult
    /\ first = NoValue
    /\ text = <<>>
    /\ parts = <<<<>>, <<>>>>
    /\ fold = NoFold
    /\ must_escape = {}

\* impl FromStr for AddrSpec
FromStr ==
    /\ stage = "text"
    /\ result' = Outcome(parse(feat, input))
    /\ ctor' = "from_str"
    /\ stage' = "built"
    /\ UNCHANGED <<feat, input, args, first, text, parts, fold, must_escape>>

\* AddrSpec::new
New ==
    /\ stage = "parts"
    /\ result' = Outcome(new_impl(args[1], args[2], FALSE))
    /\ ctor' = "new"
    /\ stage' = "built"
    /\ UNCHANGED <<feat, input, args, first, text, parts, fold, must_escape>>

\* AddrSpec::with_literal, which exists with the "literals" feature
WithLiteral ==
    /\ stage = "parts"
    /\ feat.literals
    /\ result' = Outcome(new_impl(args[1], args[2], TRUE))
    /\ ctor' = "with_literal"
    /\ stage' = "built"
    /\ UNCHANGED <<feat, input, args, first, text, parts, fold, must_escape>>

\* AddrSpec::new_unchecked
NewUnchecked ==
    /\ stage = "parts"
    /\ result' = [ok |-> TRUE, value |-> new_unchecked_impl(args[1], args[2], FALSE),
                  error |-> NoError]
    /\ ctor' = "new_unchecked"
    /\ stage' = "built"
    /\ UNCHANGED <<feat, input, args, first, text, parts, fold, must_escape>>

\* AddrSpec::with_literal_unchecked, which exists with the "literals" feature
WithLiteralUnchecked ==
    /\ stage = "parts"
    /\ feat.literals
    /\ result' = [ok |-> TRUE, value |-> new_unchecked_impl(args[1], args[2], TRUE),
                  error |-> NoError]
    /\ ctor' = "with_literal_unchecked"
    /\ stage' = "built"
    /\ UNCHANGED <<feat, input, args, first, text, parts, fold, must_escape>>

\* ToString::to_string, through impl Display for AddrSpec
ToString ==
    /\ stage = "built"
    /\ result.ok
    /\ text' = to_string(result.value)
    /\ stage' = "shown"
    /\ UNCHANGED <<feat, input, args, ctor, result, first, parts, fold, must_escape>>

\* AddrSpec::into_serialized_parts, which consumes the value
IntoSerializedParts ==
    /\ stage \in {"built", "shown"}
    /\ result.ok
    /\ parts' = into_serialized_parts(result.value)
    /\ stage' = "consumed"
    /\ UNCHANGED <<feat, input, args, ctor, result, first, text, fold, must_escape>>

\* AddrSpec::normalize on the text in input; text is the String it returns
Normalize ==
    /\ stage = "text"
    /\ \E r \in {AddrSpec_normalize(feat, input)} :
           result' = Status(r) /\ text' = StringOf(r)
    /\ ctor' = "normalize"
    /\ stage' = "normalized"
    /\ UNCHANGED <<feat, input, args, first, parts, fold, must_escape>>

\* AddrSpec::normalize on the String that AddrSpec::normalize returned
NormalizeAgain ==
    /\ stage = "normalized"
    /\ result.ok
    /\ input' = text
    /\ \E r \in {AddrSpec_normalize(feat, text)} :
           result' = Status(r) /\ text' = StringOf(r)
    /\ stage' = "renormalized"
    /\ UNCHANGED <<feat, args, ctor, first, parts, fold, must_escape>>

\* from_str on an accepted address with white space or a comment put into it
Decorate ==
    /\ stage = "built" /\ ctor = "from_str" /\ result.ok
    /\ Len(input) <= MaxDecorated
    /\ \E u \in Decorations(feat), k \in 0..Len(input) :
           /\ fold' = [at |-> k, unit |-> u]
           /\ input' = Insert(input, k, u)
           /\ result' = Outcome(parse(feat, Insert(input, k, u)))
    /\ first' = result.value
    /\ stage' = "decorated"
    /\ UNCHANGED <<feat, args, ctor, text, parts, must_escape>>

\* escape! on the text in input; the macro is the same in every build
Escape ==
    /\ stage = "text"
    /\ ~feat.white_spaces /\ ~feat.literals
    /\ \E p \in PatternSets :
           /\ must_escape' = p
           /\ text' = escape(input, BACKSLASH, p)
    /\ ctor' = "escape"
    /\ stage' = "escaped"
    /\ UNCHANGED <<feat, input, args, result, first, parts, fold>>

\* ToString::to_string, through impl Display for ParseError
DisplayError ==
    /\ stage = "built"
    /\ ~result.ok
    /\ text' = display(result.error)
    /\ stage' = "reported"
    /\ UNCHANGED <<feat, input, args, ctor, result, first, parts, fold, must_escape>>

\* from_str on the serialized form of the value
Reparse ==
    /\ stage = "shown"
    /\ input' = text
    /\ first' = result.value
    /\ result' = Outcome(parse(feat, text))
    /\ stage' = "reparsed"
    /\ UNCHANGED <<feat, args, ctor, text, parts, fold, must_escape>>

Next ==
    \/ FromStr
    \/ New
    \/ WithLiteral
    \/ NewUnchecked
    \/ WithLiteralUnchecked
    \/ ToString
    \/ IntoSerializedParts
    \/ Reparse
    \/ Normalize
    \/ NormalizeAgain
    \/ Decorate
    \/ Escape
    \/ DisplayError

Spec == Init /\ [][Next]_vars

----------------------------------------------------------------------------
(* Properties *)

\* an AddrSpec is at hand, whichever constructor returned it
Built == stage \in {"built", "shown", "consumed", "reparsed"} /\ result.ok

\* from_str has just returned, for the text in input
Parsed == stage = "built" /\ ctor = "from_str"

\* the unquoted dot-atom grammar accepts the whole of s
AcceptsWhole(s) ==
    LET r == parse_dot_atom(s, s, "empty", "empty label") IN r.ok /\ r.rest = <<>>

\* a text with every backslash dropped and the character after it kept
RECURSIVE Unescaped(_)
Unescaped(s) ==
    IF s = <<>> THEN <<>>
    ELSE IF Head(s) = BACKSLASH /\ Len(s) >= 2 THEN <<s[2]>> \o Unescaped(Drop(s, 2))
    ELSE <<Head(s)>> \o Unescaped(Tail(s))

\* C1: an address that from_str accepted, serialized by to_string and parsed
\* again, is accepted and gives a value equal in local part, domain and
\* literal flag.
C1_RoundTrip ==
    (stage = "reparsed" /\ ctor = "from_str") => (result.ok /\ result.value = first)

\* a quoted local part holding a double quote, with an empty literal domain,
\* has gone round
C1_Witness ==
    /\ stage = "reparsed" /\ ctor = "from_str" /\ result.ok
    /\ first.literal /\ first.domain = <<>>
    /\ \E i \in 1..Len(first.local_part) : first.local_part[i] = DQUOTE

\* C2: is_quoted() is false exactly when parse_dot_atom accepts the whole
\* local part, however the AddrSpec was constructed; the empty local part is
\* quoted, a.a is not, "a a" is.
C2_IsQuoted ==
    Built =>
        LET a == result.value
        IN  /\ is_quoted(a) <=> ~AcceptsWhole(a.local_part)
            /\ a.local_part = <<>> => is_quoted(a)
            /\ a.local_part = <<"a", ".", "a">> => ~is_quoted(a)
            /\ a.local_part = <<"a", SP, "a">> => is_quoted(a)

\* an unchecked constructor gave a local part with a trailing empty segment
C2_Witness ==
    /\ Built /\ ctor = "new_unchecked"
    /\ result.value.local_part = <<"a", ".">>
    /\ is_quoted(result.value)

\* C3: to_string writes the local part bare when is_quoted() is false and
\* between double quotes, escaped, when it is true; it writes the domain bare
\* when is_literal() is false and between brackets when it is true.  A local
\* part that was written quoted and is a dot-atom comes out without quotes.
C3_Minimal ==
    (stage = "shown") =>
        LET a == result.value
            dom == IF a.literal THEN <<"[">> \o a.domain \o <<"]">> ELSE a.domain
            n == Len(text) - Len(dom) - 1
            loc == Take(text, n)
        IN  /\ n >= 0
            /\ Drop(text, n) = <<"@">> \o dom
            /\ ~is_quoted(a) => loc = a.local_part
            /\ is_quoted(a) =>
                 /\ n >= 2 /\ loc[1] = DQUOTE /\ loc[n] = DQUOTE
                 /\ Unescaped(SubSeq(loc, 2, n - 1)) = a.local_part
            /\ (ctor = "from_str" /\ AcceptsWhole(a.local_part)) => text[1] # DQUOTE

\* "a"@a came out as a@a
C3_Witness ==
    /\ stage = "shown" /\ ctor = "from_str"
    /\ input = <<DQUOTE, "a", DQUOTE, "@", "a">>
    /\ text = <<"a", "@", "a">>

\* a checked constructor has just returned a value
Checked == stage = "built" /\ ctor \in {"from_str", "new", "with_literal"} /\ result.ok

\* what from_str sees of input once the leading CFWS is skipped
Source == parse_cfws(feat, input, input)

\* the local part of input is written between double quotes
SourceQuoted == Source.ok /\ Source.rest # <<>> /\ Head(Source.rest) = DQUOTE

\* C4 as claimed: no checked constructor returns an empty local part.
C4_Original == Checked => result.value.local_part # <<>>

\* C4, amended: from_str returns a non-empty local part whenever the local
\* part is written unquoted; new("", "a") succeeds with an empty local part.
C4_UnquotedNonEmpty ==
    /\ (Parsed /\ result.ok /\ ~SourceQuoted) => result.value.local_part # <<>>
    /\ (stage = "built" /\ ctor = "new" /\ args = <<<<>>, <<"a">>>>) =>
           (result.ok /\ result.value.local_part = <<>>)

\* a.a@a was parsed
C4_Witness ==
    /\ Parsed /\ result.ok /\ ~SourceQuoted
    /\ input = <<"a", ".", "a", "@", "a">>
    /\ result.value.local_part = <<"a", ".", "a">>

\* C5 as claimed: the offset of every error of from_str lies within the input.
C5_OffsetWithinInput ==
    (Parsed /\ ~result.ok) =>
        (0 <= result.error.index /\ result.error.index <= len(input))

\* the longest prefix of s free of characters that end a dot-atom
AtomSpan(s) ==
    Take(s, CHOOSE n \in 0..Len(s) :
                /\ \A i \in 1..n : ~is_not_atext(s[i])
                /\ n = Len(s) \/ is_not_atext(s[n + 1]))

HasDoubledDot(t) == \E i \in 1..(Len(t) - 1) : t[i] = "." /\ t[i + 1] = "."

\* where the first ".." of t starts, counted in characters from 1
FirstPair(t) ==
    CHOOSE i \in 1..(Len(t) - 1) :
        /\ t[i] = "." /\ t[i + 1] = "."
        /\ \A j \in 1..(i - 1) : ~(t[j] = "." /\ t[j + 1] = ".")

\* what from_str sees when it comes to the domain; ok is false when it fails earlier
AtDomain ==
    LET lp == parse_local_part(feat, input, Source.rest)
        s2 == parse_cfws(feat, input, lp.rest)
        s3 == skip_at(input, s2.rest)
    IN  IF ~Source.ok THEN Source
        ELSE IF ~lp.ok THEN lp
        ELSE IF ~s2.ok THEN s2
        ELSE IF ~s3.ok THEN s3
        ELSE parse_cfws(feat, input, s3.rest)

\* the domain of input is written as a dot-atom
DomainBare ==
    AtDomain.ok /\ ~(feat.literals /\ AtDomain.rest # <<>> /\ Head(AtDomain.rest) = "[")

\* the error a doubled dot gives: message, at `skip` characters past the first
\* dot of the first ".." of the dot-atom that starts at rest
DoubledDotError(rest, message, skip) ==
    LET span == AtomSpan(rest)
    IN  ParseError(message,
            (len(input) - len(rest)) + len(Take(span, FirstPair(span) - 1 + skip)))

\* C6 as claimed: a doubled dot in an unquoted dot-atom (one that does not
\* begin with a dot) fails with the empty-label message at the second dot of
\* the first "..".
C6_Original ==
    /\ (/\ Parsed /\ Source.ok /\ ~SourceQuoted
        /\ HasDoubledDot(AtomSpan(Source.rest)) /\ Head(Source.rest) # ".") =>
           (~result.ok /\ result.error =
                DoubledDotError(Source.rest, "empty label in local part", 1))
    /\ (/\ Parsed /\ DomainBare
        /\ HasDoubledDot(AtomSpan(AtDomain.rest)) /\ Head(AtDomain.rest) # ".") =>
           (~result.ok /\ result.error =
                DoubledDotError(AtDomain.rest, "empty label in domain", 1))

\* C6, amended: a doubled dot in an unquoted dot-atom that does not begin
\* with a dot fails with the empty-label message at the first dot of the
\* first "..".
C6_FirstDot ==
    /\ (/\ Parsed /\ Source.ok /\ ~SourceQuoted
        /\ HasDoubledDot(AtomSpan(Source.rest)) /\ Head(Source.rest) # ".") =>
           (~result.ok /\ result.error =
                DoubledDotError(Source.rest, "empty label in local part", 0))
    /\ (/\ Parsed /\ DomainBare
        /\ HasDoubledDot(AtomSpan(AtDomain.rest)) /\ Head(AtDomain.rest) # ".") =>
           (~result.ok /\ result.error =
                DoubledDotError(AtDomain.rest, "empty label in domain", 0))

\* a..a in the domain of a@a..a was refused at byte 3
C6_Witness ==
    /\ Parsed /\ input = <<"a", "@", "a", ".", ".", "a">>
    /\ DomainBare /\ HasDoubledDot(AtomSpan(AtDomain.rest))
    /\ result.error = ParseError("empty label in domain", 3)

\* C7 as claimed: a local part that is not followed by '@' fails with
\* "expected '@'" at the first character that is not '@'.
C7_ExpectedAt ==
    Parsed =>
        LET lp == parse_local_part(feat, input, Source.rest)
            s2 == parse_cfws(feat, input, lp.rest)
        IN  (Source.ok /\ lp.ok /\ s2.ok /\ ~(s2.rest # <<>> /\ Head(s2.rest) = "@")) =>
                /\ ~result.ok
                /\ result.error = ParseError("expected '@'", len(input) - len(s2.rest))

\* C8 as claimed: the empty text and an empty domain fail with the empty-label
\* diagnostic, and neither from_str nor new returns a "cannot be empty" message.
C8_SharedEmptyLabel ==
    /\ (Parsed /\ input = <<>>) =>
           result.error = ParseError("empty label in local part", 0)
    /\ (Parsed /\ input = <<"a", "@">>) =>
           result.error = ParseError("empty label in domain", 2)
    /\ (stage = "built" /\ ctor \in {"from_str", "new"} /\ ~result.ok) =>
           result.error.message \notin
               {"unquoted local part cannot be empty", "non-literal domain cannot be empty"}

\* how the scan of a quoted string ends on s, the text after the opening quote
RECURSIVE QuotedEnd(_, _)
QuotedEnd(f, s) ==
    IF s = <<>> THEN "open"
    ELSE IF Head(s) = DQUOTE THEN "closed"
    ELSE IF Head(s) = BACKSLASH
         THEN IF Len(s) = 1 THEN "open after backslash"
              ELSE IF is_ascii_control_and_not_htab(s[2]) THEN "invalid"
              ELSE QuotedEnd(f, fws(f, Drop(s, 2)))
    ELSE IF is_ascii_control_or_space(Head(s)) THEN "invalid"
    ELSE QuotedEnd(f, fws(f, Tail(s)))

SourceQuotedEnd ==
    IF SourceQuoted THEN QuotedEnd(feat, fws(feat, Tail(Source.rest))) ELSE "bare"

\* C9 as claimed: running out of input inside the quoted local part, in any
\* way, fails with "expected '"' for quoted local part" at the input length.
C9_Original ==
    (Parsed /\ SourceQuotedEnd \in {"open", "open after backslash"}) =>
        /\ ~result.ok
        /\ result.error = ParseError("expected '\"' for quoted local part", len(input))

\* C9, amended: running out of input inside the quoted local part fails at
\* the input length, with "expected '"' for quoted local part", or with
\* "unexpected end of quoted pair" when the input ends directly after a
\* backslash.
C9_Unterminated ==
    /\ (Parsed /\ SourceQuotedEnd = "open") =>
           /\ ~result.ok
           /\ result.error =
                  ParseError("expected '\"' for quoted local part", len(input))
    /\ (Parsed /\ SourceQuotedEnd = "open after backslash") =>
           /\ ~result.ok
           /\ result.error = ParseError("unexpected end of quoted pair", len(input))

\* "\" is refused at byte 3: its second double quote is escaped
C9_Witness ==
    /\ Parsed /\ input = <<DQUOTE, BACKSLASH, DQUOTE>>
    /\ SourceQuotedEnd = "open"
    /\ result.error = ParseError("expected '\"' for quoted local part", 3)

\* s with a backslash before exactly the characters of chars
EscapedExactly(s, chars) ==
    Flatten([i \in 1..Len(s) |->
                IF s[i] \in chars THEN <<BACKSLASH, s[i]>> ELSE <<s[i]>>])

\* the domain as both serializers write it
DomainText(a) == IF a.literal THEN <<"[">> \o a.domain \o <<"]">> ELSE a.domain

\* C10 as claimed: to_string escapes backslash and double quote only;
\* into_serialized_parts escapes space and tab as well.
C10_Original ==
    /\ (stage = "shown" /\ is_quoted(result.value)) =>
           text = <<DQUOTE>>
                      \o EscapedExactly(result.value.local_part, {BACKSLASH, DQUOTE})
                      \o <<DQUOTE, "@">> \o DomainText(result.value)
    /\ (stage = "consumed" /\ is_quoted(result.value)) =>
           parts[1] = <<DQUOTE>>
                          \o EscapedExactly(result.value.local_part,
                                            {BACKSLASH, DQUOTE, SP, HTAB})
                          \o <<DQUOTE>>

\* C10, amended: to_string and into_serialized_parts both put a backslash
\* before exactly the backslashes, double quotes, spaces and tabs of a local
\* part that needs quoting, and wrap it in double quotes.
C10_EscapesSpaceAndTab ==
    /\ (stage = "shown" /\ is_quoted(result.value)) =>
           text = <<DQUOTE>>
                      \o EscapedExactly(result.value.local_part,
                                        {BACKSLASH, DQUOTE, SP, HTAB})
                      \o <<DQUOTE, "@">> \o DomainText(result.value)
    /\ (stage = "consumed" /\ is_quoted(result.value)) =>
           parts[1] = <<DQUOTE>>
                          \o EscapedExactly(result.value.local_part,
                                            {BACKSLASH, DQUOTE, SP, HTAB})
                          \o <<DQUOTE>>

\* a tab and a backslash in the local part came out escaped
C10_Witness ==
    /\ stage = "shown" /\ is_quoted(result.value)
    /\ result.value.local_part = <<HTAB, BACKSLASH>>
    /\ Take(text, 6) = <<DQUOTE, BACKSLASH, HTAB, BACKSLASH, BACKSLASH, DQUOTE>>

\* C11: the two serializers agree: what to_string returned is the local part
\* of into_serialized_parts, '@', and its domain, for a value from any
\* constructor; the local part "a " with the domain a is written "a\ "@a.
C11_SerializersAgree ==
    /\ (stage = "consumed" /\ text # <<>>) => text = parts[1] \o <<"@">> \o parts[2]
    /\ (stage = "shown" /\ result.value = AddrSpec(<<"a", SP>>, <<"a">>, FALSE)) =>
           text = <<DQUOTE, "a", BACKSLASH, SP, DQUOTE, "@", "a">>

\* "a\ "@a was parsed, written by to_string and then taken apart
C11_Witness ==
    /\ stage = "consumed" /\ ctor = "from_str"
    /\ result.value = AddrSpec(<<"a", SP>>, <<"a">>, FALSE)
    /\ text = <<DQUOTE, "a", BACKSLASH, SP, DQUOTE, "@", "a">>
    /\ parts = <<<<DQUOTE, "a", BACKSLASH, SP, DQUOTE>>, <<"a">>>>

\* the control characters other than the horizontal tab
ControlsNotHtab == {CR, LF}

\* the characters that cannot stand in a dot-atom: controls, space, delimiters
NotInDotAtom ==
    {HTAB, CR, LF, SP, DQUOTE, "(", ")", ",", ":", "<", ">", "@", "[", "]", BACKSLASH}

\* s is a dot-atom: non-empty labels free of NotInDotAtom, joined by single dots
ValidDotAtom(s) ==
    /\ s # <<>>
    /\ \A i \in 1..Len(s) : s[i] \notin NotInDotAtom
    /\ s[1] # "." /\ s[Len(s)] # "." /\ ~HasDoubledDot(s)

\* the positions of s, from 1, that hold a character of chars
Positions(s, chars) == {i \in 1..Len(s) : s[i] \in chars}

\* the byte offset of the first character of chars in s
FirstOffset(s, chars) ==
    len(Take(s, (CHOOSE i \in Positions(s, chars) :
                    \A j \in Positions(s, chars) : i <= j) - 1))

\* new has just returned
NewReturned == stage = "built" /\ ctor = "new"

\* C12: new succeeds exactly when the local part has no control character
\* other than the tab and the whole domain is a dot-atom; a domain that starts
\* with '[' is refused; a bad local part gives "invalid character in local
\* part" at its first offending character; on success the value is not
\* literal and holds the two arguments.
C12_New ==
    NewReturned =>
        /\ result.ok <=>
               (Positions(args[1], ControlsNotHtab) = {} /\ ValidDotAtom(args[2]))
        /\ (args[2] # <<>> /\ Head(args[2]) = "[") => ~result.ok
        /\ Positions(args[1], ControlsNotHtab) # {} =>
               result.error = ParseError("invalid character in local part",
                                         FirstOffset(args[1], ControlsNotHtab))
        /\ result.ok =>
               /\ ~is_literal(result.value)
               /\ result.value.local_part = args[1]
               /\ result.value.domain = args[2]

\* new took a tab as the local part of the domain a
C12_Witness ==
    /\ NewReturned /\ args = <<<<HTAB>>, <<"a">>>>
    /\ result.ok /\ result.value = AddrSpec(<<HTAB>>, <<"a">>, FALSE)

\* the domain of input starts with '['
DomainBracketed == AtDomain.ok /\ AtDomain.rest # <<>> /\ Head(AtDomain.rest) = "["

\* s up to its first character of chars
Upto(s, chars) ==
    IF Positions(s, chars) = {} THEN s
    ELSE Take(s, (CHOOSE i \in Positions(s, chars) :
                     \A j \in Positions(s, chars) : i <= j) - 1)

\* the text between the '[' that starts the domain of input and the next ']'
BetweenBrackets == Upto(Tail(AtDomain.rest), {"]"})

\* s without the characters of chars
Without(s, chars) == SelectSeq(s, LAMBDA c : c \notin chars)

\* from_str of a build with literal domains has returned a value
ParsedWithLiterals == feat.literals /\ ctor = "from_str" /\ result.ok

\* what to_string writes from the '@' on for a literal domain
LiteralTail(a) == <<"@", "[">> \o a.domain \o <<"]">>

\* C13 as claimed: with literal domains, the value from_str returns is literal
\* exactly when the domain starts with '[', its domain is then the text
\* between the brackets, and to_string writes it between '[' and ']' as it is.
C13_Original ==
    /\ (ParsedWithLiterals /\ stage = "built") =>
           /\ is_literal(result.value) <=> DomainBracketed
           /\ is_literal(result.value) => result.value.domain = BetweenBrackets
    /\ (ParsedWithLiterals /\ stage = "shown" /\ is_literal(result.value)) =>
           /\ Len(text) >= Len(LiteralTail(result.value))
           /\ Drop(text, Len(text) - Len(LiteralTail(result.value)))
                  = LiteralTail(result.value)

\* C13, amended: with literal domains, the value from_str returns is literal
\* exactly when the domain starts with '['; its domain is then the text
\* between the brackets, less the folding white space when white space is
\* enabled ([a a] gives aa); to_string writes it between '[' and ']' as it is.
C13_LiteralDomain ==
    /\ (ParsedWithLiterals /\ stage = "built") =>
           /\ is_literal(result.value) <=> DomainBracketed
           /\ (is_literal(result.value) /\ ~feat.white_spaces) =>
                  result.value.domain = BetweenBrackets
           /\ (is_literal(result.value) /\ feat.white_spaces) =>
                  result.value.domain = Without(BetweenBrackets, {SP, HTAB, CR, LF})
    /\ (ParsedWithLiterals /\ stage = "shown" /\ is_literal(result.value)) =>
           /\ Len(text) >= Len(LiteralTail(result.value))
           /\ Drop(text, Len(text) - Len(LiteralTail(result.value)))
                  = LiteralTail(result.value)

\* a@[a a] was parsed with white space enabled and written back as a@[aa]
C13_Witness ==
    /\ ParsedWithLiterals /\ stage = "shown" /\ feat.white_spaces
    /\ input = <<"a", "@", "[", "a", SP, "a", "]">>
    /\ result.value = AddrSpec(<<"a">>, <<"a", "a">>, TRUE)
    /\ text = <<"a", "@", "[", "a", "a", "]">>

\* the characters that cannot stand in a domain literal
NotInLiteral == {HTAB, CR, LF, SP, "[", "]", BACKSLASH}

\* where the scan of a domain literal stops on s, the text after '[', and
\* why: at ']', at the end of the input, or at a character it does not allow
RECURSIVE LiteralStop(_, _)
LiteralStop(f, s) ==
    LET t == fws(f, s)
    IN  IF t = <<>> THEN [why |-> "end", rest |-> t]
        ELSE IF Head(t) = "]" THEN [why |-> "closed", rest |-> t]
        ELSE IF Head(t) \in NotInLiteral THEN [why |-> "invalid", rest |-> t]
        ELSE LiteralStop(f, Tail(t))

\* how the scan of the domain literal of input ends; "none" without a literal
SourceLiteralStop ==
    IF feat.literals /\ DomainBracketed THEN LiteralStop(feat, Tail(AtDomain.rest))
    ELSE [why |-> "none", rest |-> <<>>]

\* the byte offset at which the scan of the domain literal of input stopped
LiteralStopOffset == len(input) - len(SourceLiteralStop.rest)

\* C14 as claimed: with literal domains, in every build, a domain literal
\* whose scan stops before a ']' fails with "expected ']' for domain literal"
\* at the offset where the scan stopped: the input length, or the first
\* character a literal does not allow.
C14_Original ==
    (Parsed /\ SourceLiteralStop.why \in {"end", "invalid"}) =>
        /\ ~result.ok
        /\ result.error = ParseError("expected ']' for domain literal", LiteralStopOffset)

\* C14, amended: the offset is where the scan stopped in every build; the
\* message is "expected ']' for domain literal", except that with white space
\* enabled a character the literal does not allow gives "invalid character in
\* literal domain".
C14_LiteralStop ==
    /\ (Parsed /\ SourceLiteralStop.why = "end") =>
           /\ ~result.ok
           /\ result.error =
                  ParseError("expected ']' for domain literal", len(input))
           /\ LiteralStopOffset = len(input)
    /\ (Parsed /\ SourceLiteralStop.why = "invalid" /\ ~feat.white_spaces) =>
           /\ ~result.ok
           /\ result.error =
                  ParseError("expected ']' for domain literal", LiteralStopOffset)
    /\ (Parsed /\ SourceLiteralStop.why = "invalid" /\ feat.white_spaces) =>
           /\ ~result.ok
           /\ result.error =
                  ParseError("invalid character in literal domain", LiteralStopOffset)

\* a@[a a] was refused at the space, byte 4, with white space disabled
C14_Witness ==
    /\ Parsed /\ ~feat.white_spaces
    /\ input = <<"a", "@", "[", "a", SP, "a", "]">>
    /\ SourceLiteralStop.why = "invalid"
    /\ result.error = ParseError("expected ']' for domain literal", 4)

\* with_literal has just returned
WithLiteralReturned == stage = "built" /\ ctor = "with_literal"

\* C15: a literal domain returned by from_str or with_literal holds no control
\* character, no space and none of '[' ']' '\'; with_literal checks the local
\* part as new does and accepts every such domain, the empty one and those
\* with leading, trailing or doubled dots included; otherwise it fails with
\* "invalid character in literal domain" at the first offending character of
\* the domain.
C15_LiteralDomain ==
    /\ (/\ stage = "built" /\ ctor \in {"from_str", "with_literal"}
        /\ result.ok /\ is_literal(result.value)) =>
           Positions(result.value.domain, NotInLiteral) = {}
    /\ WithLiteralReturned =>
           /\ result.ok <=>
                  /\ Positions(args[1], ControlsNotHtab) = {}
                  /\ Positions(args[2], NotInLiteral) = {}
           /\ Positions(args[1], ControlsNotHtab) # {} =>
                  result.error = ParseError("invalid character in local part",
                                            FirstOffset(args[1], ControlsNotHtab))
           /\ (Positions(args[1], ControlsNotHtab) = {}
                  /\ Positions(args[2], NotInLiteral) # {}) =>
                  result.error = ParseError("invalid character in literal domain",
                                            FirstOffset(args[2], NotInLiteral))
           /\ args \in {<<<<>>, <<>>>>, <<<<>>, <<".", "a">>>>, <<<<>>, <<"a", ".">>>>,
                        <<<<>>, <<".", ".">>>>} =>
                  result.ok /\ is_literal(result.value)
           /\ result.ok => result.value = AddrSpec(args[1], args[2], TRUE)

\* with_literal took the domain ..
C15_Witness ==
    /\ WithLiteralReturned /\ args = <<<<>>, <<".", ".">>>>
    /\ result.ok /\ result.value = AddrSpec(<<>>, <<".", ".">>, TRUE)

\* C16: a domain that is not literal, returned by from_str or new, is a
\* dot-atom: not empty, every label between dots not empty, and free of
\* control characters, space and the delimiters " ( ) , : < > @ [ ] \.
C16_DotAtomDomain ==
    (/\ stage = "built" /\ ctor \in {"from_str", "new"}
     /\ result.ok /\ ~is_literal(result.value)) =>
        /\ ValidDotAtom(result.value.domain)
        /\ \A i \in 1..Len(split(result.value.domain, <<>>)) :
               split(result.value.domain, <<>>)[i] # <<>>

\* "a\ "@a.a was parsed: a quoted local part and a domain of two labels
C16_Witness ==
    /\ Parsed /\ result.ok /\ ~is_literal(result.value)
    /\ input = <<DQUOTE, "a", BACKSLASH, SP, DQUOTE, "@", "a", ".", "a">>
    /\ result.value.domain = <<"a", ".", "a">>

\* C17: normalize gives what from_str followed by to_string gives, and the
\* error of from_str when from_str fails; normalize of a text that normalize
\* returned succeeds and returns that text unchanged; "a"@a gives a@a.
C17_Normalize ==
    /\ stage = "normalized" =>
           LET r == parse(feat, input)
           IN  /\ result.ok <=> r.ok
               /\ r.ok => text = to_string(r.val)
               /\ ~r.ok => result.error = r.error
    /\ (stage = "normalized" /\ input = <<DQUOTE, "a", DQUOTE, "@", "a">>) =>
           (result.ok /\ text = <<"a", "@", "a">>)
    /\ stage = "renormalized" => (result.ok /\ text = input)

\* an address was normalized to a@a, and a@a to itself
C17_Witness ==
    /\ stage = "renormalized" /\ result.ok
    /\ input = <<"a", "@", "a">> /\ text = <<"a", "@", "a">>

\* the error for the dot-atom that starts at rest when it begins or ends with
\* a dot; message at its start when `leading`, else at its last character
EdgeDotError(rest, message, leading) ==
    ParseError(message,
        (len(input) - len(rest)) + (IF leading THEN 0 ELSE len(AtomSpan(rest)) - 1))

LeadingDot(span) == span # <<>> /\ span[1] = "."

\* span ends with a dot and has neither a leading nor a doubled dot
TrailingDotOnly(span) ==
    span # <<>> /\ span[1] # "." /\ ~HasDoubledDot(span) /\ span[Len(span)] = "."

\* C18: an unquoted dot-atom that begins with '.' fails with the empty-label
\* message at the offset where it starts; one with no leading or doubled dot
\* that ends with '.' fails with it at the offset of that last '.'.  The
\* message is "empty label in local part" or "empty label in domain".
C18_EdgeDots ==
    /\ (Parsed /\ Source.ok /\ ~SourceQuoted /\ LeadingDot(AtomSpan(Source.rest))) =>
           (~result.ok /\ result.error =
                EdgeDotError(Source.rest, "empty label in local part", TRUE))
    /\ (Parsed /\ Source.ok /\ ~SourceQuoted /\ TrailingDotOnly(AtomSpan(Source.rest))) =>
           (~result.ok /\ result.error =
                EdgeDotError(Source.rest, "empty label in local part", FALSE))
    /\ (Parsed /\ DomainBare /\ LeadingDot(AtomSpan(AtDomain.rest))) =>
           (~result.ok /\ result.error =
                EdgeDotError(AtDomain.rest, "empty label in domain", TRUE))
    /\ (Parsed /\ DomainBare /\ TrailingDotOnly(AtomSpan(AtDomain.rest))) =>
           (~result.ok /\ result.error =
                EdgeDotError(AtDomain.rest, "empty label in domain", FALSE))

\* the local part of two bytes and a dot was refused at the dot, byte 2
C18_Witness ==
    /\ Parsed /\ input = <<WIDE, ".", "@">>
    /\ TrailingDotOnly(AtomSpan(Source.rest))
    /\ result.error = ParseError("empty label in local part", 2)

\* what from_str sees once the domain of input and the CFWS after it are
\* consumed; ok is false when it fails earlier
AfterDomain ==
    LET d == parse_domain(feat, input, AtDomain.rest)
    IN  IF ~AtDomain.ok THEN AtDomain
        ELSE IF ~d.ok THEN d
        ELSE parse_cfws(feat, input, d.rest)

\* C19: when local part, '@' and domain are recognized and input remains
\* after the domain and the CFWS that follows it, from_str fails with
\* "expected end of address" at the first character not consumed and returns
\* no value; a@a@a fails at byte 3.
C19_NoPartialSuccess ==
    /\ (Parsed /\ AfterDomain.ok /\ AfterDomain.rest # <<>>) =>
           /\ ~result.ok
           /\ result.value = NoValue
           /\ result.error =
                  ParseError("expected end of address", len(input) - len(AfterDomain.rest))
    /\ (Parsed /\ input = <<"a", "@", "a", "@", "a">>) =>
           result.error = ParseError("expected end of address", 3)

\* a@a a was refused at its second a, byte 4, the white space before it skipped
C19_Witness ==
    /\ Parsed /\ feat.white_spaces
    /\ input = <<"a", "@", "a", SP, "a">>
    /\ AfterDomain.ok /\ AfterDomain.rest = <<"a">>
    /\ result.error = ParseError("expected end of address", 4)

\* from_str of a build without white space and comments has just returned
ParsedWithoutWhiteSpaces == Parsed /\ ~feat.white_spaces

\* s, the text after an opening double quote, has its spaces and tabs only
\* directly after the backslash of a quoted pair before the closing quote
RECURSIVE BlanksOnlyEscaped(_)
BlanksOnlyEscaped(s) ==
    IF s = <<>> THEN TRUE
    ELSE IF Head(s) = DQUOTE THEN Positions(Tail(s), {SP, HTAB}) = {}
    ELSE IF Head(s) = BACKSLASH /\ Len(s) >= 2 THEN BlanksOnlyEscaped(Drop(s, 2))
    ELSE IF Head(s) \in {SP, HTAB} THEN FALSE
    ELSE BlanksOnlyEscaped(Tail(s))

\* the scan of s, the text after an opening double quote, up to an unescaped
\* space or tab; hit is false when the scan ends in another way first
RECURSIVE BareBlank(_)
BareBlank(s) ==
    IF s = <<>> \/ Head(s) \in {DQUOTE, CR, LF} THEN [hit |-> FALSE, rest |-> s]
    ELSE IF Head(s) \in {SP, HTAB} THEN [hit |-> TRUE, rest |-> s]
    ELSE IF Head(s) = BACKSLASH
         THEN IF Len(s) = 1 \/ s[2] \in {CR, LF} THEN [hit |-> FALSE, rest |-> s]
              ELSE BareBlank(Drop(s, 2))
    ELSE BareBlank(Tail(s))

\* C20: without white space and comments, an input that from_str accepts
\* holds no CR and no LF, and holds a space or tab only as the second
\* character of a quoted pair of the quoted local part; an unescaped space or
\* tab in a quoted local part fails with "invalid character in quoted local
\* part" at that character; a space in a domain literal fails at the space.
C20_NoWhiteSpace ==
    /\ (ParsedWithoutWhiteSpaces /\ result.ok) =>
           /\ Positions(input, {CR, LF}) = {}
           /\ IF Head(input) = DQUOTE THEN BlanksOnlyEscaped(Tail(input))
              ELSE Positions(input, {SP, HTAB}) = {}
    /\ (ParsedWithoutWhiteSpaces /\ input # <<>> /\ Head(input) = DQUOTE
          /\ BareBlank(Tail(input)).hit) =>
           /\ ~result.ok
           /\ result.error =
                  ParseError("invalid character in quoted local part",
                             len(input) - len(BareBlank(Tail(input)).rest))
    /\ (ParsedWithoutWhiteSpaces /\ SourceLiteralStop.why = "invalid"
          /\ Head(SourceLiteralStop.rest) = SP) =>
           /\ ~result.ok
           /\ result.error.index = LiteralStopOffset

\* "\ a "@a was refused at its second space, byte 4, the first one escaped
C20_Witness ==
    /\ ParsedWithoutWhiteSpaces
    /\ input = <<DQUOTE, BACKSLASH, SP, "a", SP, DQUOTE, "@", "a">>
    /\ BareBlank(Tail(input)).hit
    /\ result.error = ParseError("invalid character in quoted local part", 4)

\* what s, the text after an opening double quote, stands for up to its
\* closing quote: a backslash is dropped and the character after it kept,
\* white space that is not escaped is dropped where the build skips it
RECURSIVE Decoded(_, _)
Decoded(f, s) ==
    IF s = <<>> \/ Head(s) = DQUOTE THEN <<>>
    ELSE IF Head(s) = BACKSLASH /\ Len(s) >= 2 THEN <<s[2]>> \o Decoded(f, Drop(s, 2))
    ELSE IF f.white_spaces /\ Head(s) \in {SP, HTAB, CR, LF} THEN Decoded(f, Tail(s))
    ELSE <<Head(s)>> \o Decoded(f, Tail(s))

\* the scan of s, the text after an opening double quote, up to a backslash
\* followed by CR or LF; rest starts at that character, hit is false when the
\* scan ends in another way first
RECURSIVE BadPair(_, _)
BadPair(f, s) ==
    LET t == fws(f, s)
    IN  IF t = <<>> \/ Head(t) \in {DQUOTE, SP, HTAB, CR, LF} THEN [hit |-> FALSE, rest |-> t]
        ELSE IF Head(t) = BACKSLASH
             THEN IF Len(t) = 1 THEN [hit |-> FALSE, rest |-> t]
                  ELSE IF t[2] \in {CR, LF} THEN [hit |-> TRUE, rest |-> Tail(t)]
                  ELSE BadPair(f, Drop(t, 2))
        ELSE BadPair(f, Tail(t))

\* C21: in a quoted local part a backslash followed by a character that is
\* not a control character, or is the tab, gives that character alone and
\* does not end the string, the double quote, the backslash and the space
\* included; followed by a control character other than the tab it fails with
\* "invalid character in quoted pair" at that character.
C21_QuotedPair ==
    /\ (Parsed /\ SourceQuoted /\ result.ok) =>
           result.value.local_part = Decoded(feat, Tail(Source.rest))
    /\ (Parsed /\ input = <<DQUOTE, BACKSLASH, DQUOTE, BACKSLASH, BACKSLASH,
                            BACKSLASH, SP, DQUOTE, "@", "a">>) =>
           (result.ok /\ result.value.local_part = <<DQUOTE, BACKSLASH, SP>>)
    /\ (Parsed /\ SourceQuoted /\ BadPair(feat, Tail(Source.rest)).hit) =>
           /\ ~result.ok
           /\ result.error =
                  ParseError("invalid character in quoted pair",
                             len(input) - len(BadPair(feat, Tail(Source.rest)).rest))

\* "\<TAB>\\"@a was parsed: a tab and a backslash, both escaped
C21_Witness ==
    /\ Parsed /\ SourceQuoted /\ result.ok
    /\ input = <<DQUOTE, BACKSLASH, HTAB, BACKSLASH, BACKSLASH, DQUOTE, "@", "a">>
    /\ result.value.local_part = <<HTAB, BACKSLASH>>

\* from_str has returned for an accepted address with something put into it
Decorated == stage = "decorated"

\* the address before fold.unit was put into it
Undecorated == Take(input, fold.at) \o Drop(input, fold.at + Len(fold.unit))

Blanks == {SP, HTAB, CR, LF}

\* where the parts of the accepted address s lie, counted in characters
Layout(f, s) ==
    LET s1 == parse_cfws(f, s, s)
        lp == parse_local_part(f, s, s1.rest)
        s2 == parse_cfws(f, s, lp.rest)
        s3 == skip_at(s, s2.rest)
        s4 == parse_cfws(f, s, s3.rest)
        d == parse_domain(f, s, s4.rest)
    IN  [local |-> Len(s) - Len(s1.rest), after_local |-> Len(s) - Len(lp.rest),
         at |-> Len(s) - Len(s2.rest), after_at |-> Len(s) - Len(s3.rest),
         domain |-> Len(s) - Len(s4.rest), after_domain |-> Len(s) - Len(d.rest)]

\* the items of s up to the character close: a backslash with the character
\* after it is one item, every other character is one item
RECURSIVE ItemsUpTo(_, _)
ItemsUpTo(s, close) ==
    IF s = <<>> \/ Head(s) = close THEN <<>>
    ELSE IF Head(s) = BACKSLASH /\ Len(s) >= 2
         THEN <<Take(s, 2)>> \o ItemsUpTo(Drop(s, 2), close)
    ELSE <<<<Head(s)>>>> \o ItemsUpTo(Tail(s), close)

\* an item that is white space and not escaped
BareBlankItem(item) == Len(item) = 1 /\ item[1] \in Blanks

\* the places between and around items with no unescaped white space next to
\* them, as numbers of characters from the first item
ItemGaps(items) ==
    {Len(Flatten(SubSeq(items, 1, n))) : n \in
        {m \in 0..Len(items) :
            /\ m >= 1 => ~BareBlankItem(items[m])
            /\ m < Len(items) => ~BareBlankItem(items[m + 1])}}

\* the places of s between its parts with no white space next to them;
\* l is the layout of s
PartGaps(s, l) ==
    {k \in {l.local, l.after_local, l.at, l.after_at, l.domain, l.after_domain} :
        /\ k >= 1 => s[k] \notin Blanks
        /\ k < Len(s) => s[k + 1] \notin Blanks}

\* the places inside the quoted local part of s, if it has one
QuotedGaps(s, l) ==
    IF s[l.local + 1] # DQUOTE THEN {}
    ELSE {l.local + 1 + g : g \in ItemGaps(ItemsUpTo(Drop(s, l.local + 1), DQUOTE))}

\* the places inside the domain literal of s, if it has one
LiteralGaps(f, s, l) ==
    IF ~(f.literals /\ s[l.domain + 1] = "[") THEN {}
    ELSE {l.domain + 1 + g : g \in ItemGaps(ItemsUpTo(Drop(s, l.domain + 1), "]"))}

\* the places of s where the grammar skips folding white space
FoldPlaces(f, s, l) == PartGaps(s, l) \cup QuotedGaps(s, l) \cup LiteralGaps(f, s, l)

\* one unit of folding white space was put where the grammar skips it
Folded ==
    /\ Decorated /\ fold.unit \in FWSUnits
    /\ fold.at \in FoldPlaces(feat, Undecorated, Layout(feat, Undecorated))

\* C22: with white space enabled, one unit of folding white space, with no
\* unescaped white space next to it, put before the local part, before or
\* after '@', after the domain, or between the items of a quoted local part or
\* of a domain literal, is skipped: from_str returns the value it returns
\* without the unit.  An escaped space is kept: "a \ "@a gives the local
\* part 'a '.
C22_FoldingSkipped ==
    /\ Folded => (result.ok /\ result.value = first)
    /\ (Decorated /\ input = <<DQUOTE, "a", SP, BACKSLASH, SP, DQUOTE, "@", "a">>) =>
           (result.ok /\ result.value.local_part = <<"a", SP>>)

\* a CRLF and a space were put between the items of the literal of a@[a..]
C22_Witness ==
    /\ Folded /\ result.ok
    /\ input = <<"a", "@", "[", "a", CR, LF, SP, ".", ".", "]">>
    /\ result.value = AddrSpec(<<"a">>, <<"a", ".", ".">>, TRUE)

\* the places of the layout l between the parts of an address
PartPlaces(l) == {l.local, l.after_local, l.at, l.after_at, l.domain, l.after_domain}

\* a comment was put before the local part, before or after '@', or after
\* the domain of an accepted address
Commented ==
    /\ Decorated /\ fold.unit \in Comments
    /\ fold.at \in PartPlaces(Layout(feat, Undecorated))

\* how a comment ends on s, the text after its '(' , with n parentheses open:
\* an unescaped '(' adds one, an unescaped ')' takes one away and closes the
\* comment at the last one, a backslash and the character after it count for
\* nothing
RECURSIVE CommentEnd(_, _, _)
CommentEnd(f, s, n) ==
    LET t == fws(f, s)
    IN  IF t = <<>> THEN "open"
        ELSE IF Head(t) = ")" THEN (IF n = 1 THEN "closed" ELSE CommentEnd(f, Tail(t), n - 1))
        ELSE IF Head(t) = "(" THEN CommentEnd(f, Tail(t), n + 1)
        ELSE IF Head(t) = BACKSLASH
             THEN IF Len(t) = 1 THEN "open after backslash"
                  ELSE IF t[2] \in {CR, LF} THEN "invalid"
                  ELSE CommentEnd(f, Drop(t, 2), n)
        ELSE IF Head(t) \in Blanks THEN "invalid"
        ELSE CommentEnd(f, Tail(t), n)

\* how the comment that input starts with ends; "none" when it starts with none
SourceCommentEnd ==
    IF feat.comments /\ skip_fws(input) # <<>> /\ Head(skip_fws(input)) = "("
    THEN CommentEnd(feat, Tail(skip_fws(input)), 1)
    ELSE "none"

\* C23 as claimed: with comments, a comment, nested or not, with or without
\* escaped parentheses, put before the local part, before or after '@', or
\* after the domain leaves the value unchanged; an input that ends inside a
\* comment, in any way, fails with "expected ')' for comment" at the input
\* length.
C23_Original ==
    /\ Commented => (result.ok /\ result.value = first)
    /\ (Parsed /\ SourceCommentEnd \in {"open", "open after backslash"}) =>
           /\ ~result.ok
           /\ result.error = ParseError("expected ')' for comment", len(input))

\* C23, amended: as claimed, except that an input that ends directly after
\* a backslash inside a comment fails with "unexpected end of quoted pair",
\* at the input length as well.
C23_Comments ==
    /\ Commented => (result.ok /\ result.value = first)
    /\ (Parsed /\ SourceCommentEnd = "open") =>
           /\ ~result.ok
           /\ result.error = ParseError("expected ')' for comment", len(input))
    /\ (Parsed /\ SourceCommentEnd = "open after backslash") =>
           /\ ~result.ok
           /\ result.error = ParseError("unexpected end of quoted pair", len(input))

\* the comment (\)) was put between the local part and '@' of a@a
C23_Witness ==
    /\ Commented /\ result.ok
    /\ input = <<"a", "(", BACKSLASH, ")", ")", "@", "a">>
    /\ result.value = AddrSpec(<<"a">>, <<"a">>, FALSE)

\* the escaper has returned text for input and must_escape
Escaped == stage = "escaped"

\* what the escaper escapes: its escape character and the must-escape set
Escapable == {BACKSLASH} \cup must_escape

\* C24: the escaper returns its input with one escape character put before
\* each occurrence of the escape character or of a must-escape character and
\* everything else copied in order; the output is longer than the input by
\* the number of such occurrences, the empty text gives the empty text, and
\* a text with nothing to escape comes back unchanged.
C24_Escaper ==
    Escaped =>
        /\ text = EscapedExactly(input, Escapable)
        /\ len(text) = len(input) + Cardinality(Positions(input, Escapable))
        /\ input = <<>> => text = <<>>
        /\ Positions(input, Escapable) = {} => text = input

\* a\"b was escaped for the double quote: a\\\"b
C24_Witness ==
    /\ Escaped /\ must_escape = {DQUOTE}
    /\ input = <<"a", BACKSLASH, DQUOTE>>
    /\ text = <<"a", BACKSLASH, BACKSLASH, BACKSLASH, DQUOTE>>

\* C25 as claimed: a ParseError is displayed as "parse error at index ",
\* its offset, ": ", its message, in this order.
C25_DisplayOrder ==
    stage = "reported" =>
        text = <<"parse error at index ">> \o Decimal(result.error.index)
                   \o <<": ">> \o <<result.error.message>>

\* from_str has returned for the text in input, as first given or as decorated
FromText == stage \in {"built", "decorated"} /\ ctor = "from_str"

\* the input left when a quoted local part that starts the address is parsed:
\* what follows the opening quote, less the white space skipped at its start
AfterQuote == fws(feat, Tail(input))

\* C26: the buffer of parse_quoted_string, and of parse_domain_literal when
\* white space is enabled, is never filled beyond its capacity: len <= cap
\* when it is allocated and after every character appended to it, whether the
\* parse succeeds or fails; and for a quoted local part at the start of the
\* address that capacity is the byte length of the input left at that point.
C26_FixedVec ==
    FromText =>
        LET made == buffers(feat, input) IN
        /\ \A b \in 1..Len(made) : \A i \in 1..Len(made[b]) :
               made[b][i].len <= made[b][i].cap
        /\ (input # <<>> /\ Head(input) = DQUOTE) =>
               /\ made # <<>>
               /\ made[1][1] = [len |-> 0, cap |-> len(AfterQuote)]

\* C26 happens: an address with a quoted local part and a domain literal, both
\* with a character of more than one byte or white space skipped inside, is
\* parsed with two buffers, each appended to; and a buffer is filled to its
\* capacity when the closing quote is missing
C26_Witness ==
    /\ FromText
    /\ LET made == buffers(feat, input) IN
        \/ /\ Len(made) = 2 /\ result.ok
           /\ Len(made[1]) > 1 /\ Len(made[2]) > 1
           /\ Len(input) > len(result.value.local_part) + len(result.value.domain) + 5
        \/ /\ Len(made) = 1 /\ ~result.ok
           /\ Len(made[1]) > 2
           /\ made[1][Len(made[1])].len = made[1][1].cap

====
